---- MODULE Spec2Model ----
(***************************************************************************)
(* The research orchestration engine of the Deep Research Agent backend:   *)
(* the LangGraph pipeline of backend/workflow.py (generate_queries ->      *)
(* web_search fan-out -> aggregate_results -> reflection ->                *)
(* answer_generation), the five stage functions of backend/nodes.py and    *)
(* the channel reducers of backend/state.py.                               *)
(*                                                                         *)
(* The language model is an opaque, fallible capability: every call either *)
(* raises or returns a text, and the actions draw that outcome from small  *)
(* sets.  Everything else is translated from the code.                     *)
(***************************************************************************)
EXTENDS Integers, Sequences, FiniteSets, TLC

VARIABLES
    config,        \* backend.config.config: the fields the pipeline reads
    state,         \* the graph's channels (OverallState)
    pc,            \* the node(s) of the next superstep, "END" when the run is over
    tasks,         \* the Send tasks of the current web_search superstep
    route,         \* what the last conditional edge returned
    steps,         \* supersteps executed so far
    hist,          \* observations of the run (what was dispatched, what ran)
    io,            \* the caller's side of the run: the request, the events the
                   \* streaming function has yielded so far, the response
    other,         \* a second run in progress in the same process, while the
                   \* event loop is executing the first
    writer         \* a StreamingWriter: its callback and its phase_history

vars == <<config, state, pc, tasks, route, steps, hist, io, other, writer>>

---------------------------------------------------------------------------
(* Bounds of the model *)

\* config.max_research_loops ranges over 0..MaxLoopsBound
MaxLoopsBound == 2
\* config.initial_queries_count ranges over 0..MaxInitialQueries
MaxInitialQueries == 3
\* the query generator's JSON holds at most MaxModelQueries queries
MaxModelQueries == 2
\* no run is followed for more than MaxSteps supersteps
MaxSteps == 8
\* a request's question has at most MaxQuestionLen characters
MaxQuestionLen == 2
\* a StreamingWriter is sent at most MaxUpdates updates
MaxUpdates == 3
\* two runs are interleaved while they have executed fewer than MaxPairSteps
\* supersteps between them; after that the one being executed goes on alone
MaxPairSteps == 2
\* research_loop_count of the states handed to the two routers on their own
MaxLoopInput == 3

---------------------------------------------------------------------------
(* Values *)

Questions == {"Q"}
QueryPool == {"", "q"}
FollowUpLists == {<<>>, <<"f1">>, <<"f1", "f2">>, <<"", "f2">>}
UrlLists == {<<>>, <<"u1">>, <<"u2", "u1">>}
ErrTexts == {"boom"}
AnswerTexts == {"", "answer"}

SeqsUpTo(S, n) == UNION {[1..k -> S] : k \in 0..n}

Take(s, n) == IF n >= Len(s) THEN s ELSE SubSeq(s, 1, n)

Range(s) == {s[i] : i \in DOMAIN s}

Digit(d) ==
    CASE d = 0 -> "0" [] d = 1 -> "1" [] d = 2 -> "2" [] d = 3 -> "3"
      [] d = 4 -> "4" [] d = 5 -> "5" [] d = 6 -> "6" [] d = 7 -> "7"
      [] d = 8 -> "8" [] OTHER -> "9"

\* str(n) of a non-negative int, as an f-string renders it
RECURSIVE Str(_)
Str(n) == IF n < 10 THEN Digit(n) ELSE Str(n \div 10) \o Digit(n % 10)

\* the orderings list(set(...)) can produce for a set of strings
Orderings(S) ==
    {f \in [1..Cardinality(S) -> S] : \A i, j \in DOMAIN f : i # j => f[i] # f[j]}

---------------------------------------------------------------------------
(* state.py: OverallState and its reducers *)

\* the channels declared Annotated[..., add]: an update is appended
\* faulty variant: errors declared without the add reducer
AddChannels_without_errors == {"search_results", "sources_gathered", "citations"}

AddChannels == {"search_results", "sources_gathered", "citations", "errors"}

\* a superstep's write to the channels: add-channels append, the others are
\* overwritten, a key the node did not return is left alone
ApplyUpdate(s, u) ==
    [k \in DOMAIN s |->
        IF k \in DOMAIN u
        THEN IF k \in AddChannels THEN s[k] \o u[k] ELSE u[k]
        ELSE s[k]]

RECURSIVE ApplyUpdates(_, _)
ApplyUpdates(s, us) ==
    IF us = <<>> THEN s ELSE ApplyUpdates(ApplyUpdate(s, Head(us)), Tail(us))

\* stream_research: the initial OverallState of a run
initial_state(question) ==
    [ original_question  |-> question,
      query_list         |-> <<>>,
      search_results     |-> <<>>,
      sources_gathered   |-> <<>>,
      is_sufficient      |-> FALSE,
      follow_up_queries  |-> <<>>,
      research_loop_count |-> 0,
      total_queries_run  |-> 0,
      final_answer       |-> "",
      citations          |-> <<>>,
      current_phase      |-> "generating_queries",
      errors             |-> <<>> ]

---------------------------------------------------------------------------
(* The language model's outcomes *)

\* llm.ainvoke in generate_queries_node: get_llm or the call raises ("error"),
\* the text is no JSON object ("unparseable"), or it is one ("json"): has_queries
\* says whether it has a "queries" key, list is that key's value or, without the
\* key, the first non-empty list of strings among its other values (<<>>: none)
QueryGenOutcomes ==
    [kind : {"error"}, err : ErrTexts, has_queries : {FALSE}, list : {<<>>}]
    \cup [kind : {"unparseable"}, err : {""}, has_queries : {FALSE}, list : {<<>>}]
    \cup [kind : {"json"}, err : {""}, has_queries : BOOLEAN,
          list : SeqsUpTo(QueryPool, MaxModelQueries)]

\* client.chat.completions.create in web_search_node: urls is what
\* extract_urls_from_text finds in the text, a list without repetitions
SearchOutcomes ==
    [kind : {"error"}, err : ErrTexts, urls : {<<>>}]
    \cup [kind : {"ok"}, err : {""}, urls : UrlLists]

NoOutcome == [kind |-> "none", err |-> "", urls |-> <<>>]

\* the reflection model: get_llm raises ("client_error"), ainvoke raises
\* ("call_error"), the text does not parse ("unparseable") or it parses ("json")
ReflectOutcomes ==
    [kind : {"client_error", "call_error"}, err : ErrTexts,
     is_sufficient : {TRUE}, follow_up_queries : {<<>>}]
    \cup [kind : {"unparseable"}, err : {""},
          is_sufficient : {TRUE}, follow_up_queries : {<<>>}]
    \cup [kind : {"json"}, err : {""},
          is_sufficient : BOOLEAN, follow_up_queries : {<<>>, <<"f1", "f2">>}]

\* llm.ainvoke in answer_generation_node
AnswerOutcomes ==
    [kind : {"error"}, err : ErrTexts, content : {""}]
    \cup [kind : {"ok"}, err : {""}, content : AnswerTexts]

---------------------------------------------------------------------------
(* prompts.py *)

\* the replacement fields str.format finds in REFLECTION_USER_TEMPLATE: the
\* four placeholders and the opening brace of the JSON example, which is not
\* doubled and so starts a fifth field named by the text that follows it
REFLECTION_USER_TEMPLATE ==
    {"question", "research_summary", "source_count", "loop_count",
     "\n  \"is_sufficient\""}

\* the keyword arguments reflection_node passes to .format
ReflectionFormatArgs ==
    {"question", "research_summary", "source_count", "loop_count"}

\* str.format raises KeyError for a field that is no keyword argument
FormatRaises(fields, kwargs) == fields \ kwargs # {}

---------------------------------------------------------------------------
(* nodes.py: the stage functions, each returning its partial state *)

TemplatedQueries(question) ==
    <<question \o " research", question \o " analysis", question \o " facts">>

\* faulty variant: a failed model call answered with the templated queries
generate_queries_node_templates_on_error(st, out) ==
    LET question == st.original_question IN
    IF out.kind = "error"
    THEN [ errors            |-> <<"Query generation failed: " \o out.err>>,
           query_list        |-> TemplatedQueries(question),
           original_question |-> question ]
    ELSE LET queries ==
                 IF out.kind = "unparseable" THEN TemplatedQueries(question)
                 ELSE IF out.has_queries THEN out.list
                 ELSE IF out.list # <<>> THEN out.list
                 ELSE TemplatedQueries(question)
         IN  [ query_list        |-> Take(queries, config.initial_queries_count),
               original_question |-> question,
               current_phase     |-> "search_web" ]

\* faulty variant: the model's list returned without the cut to the configured count
generate_queries_node_untruncated(st, out) ==
    LET question == st.original_question IN
    IF out.kind = "error"
    THEN [ errors            |-> <<"Query generation failed: " \o out.err>>,
           query_list        |-> <<question>>,
           original_question |-> question ]
    ELSE LET queries ==
                 IF out.kind = "unparseable" THEN TemplatedQueries(question)
                 ELSE IF out.has_queries THEN out.list
                 ELSE IF out.list # <<>> THEN out.list
                 ELSE TemplatedQueries(question)
         IN  [ query_list        |-> queries,
               original_question |-> question,
               current_phase     |-> "search_web" ]

generate_queries_node(st, out) ==
    LET question == st.original_question IN
    IF out.kind = "error"
    THEN [ errors            |-> <<"Query generation failed: " \o out.err>>,
           query_list        |-> <<question>>,
           original_question |-> question ]
    ELSE LET queries ==
                 IF out.kind = "unparseable" THEN TemplatedQueries(question)
                 ELSE IF out.has_queries THEN out.list
                 ELSE IF out.list # <<>> THEN out.list
                 ELSE TemplatedQueries(question)
         IN  [ query_list        |-> Take(queries, config.initial_queries_count),
               original_question |-> question,
               current_phase     |-> "search_web" ]

\* relevance_score in tenths: 0.9 on success, 0.0 on failure
RelevanceOk == 9
RelevanceError == 0

\* faulty variant: a failed search reporting the error without an Evidence Record
web_search_node_drops_failures(ws, out) ==
    LET query   == IF ws.query = "" THEN "General research query" ELSE ws.query
        task_id == ws.task_id
    IN  IF out.kind = "error"
        THEN [ search_results   |-> <<>>,
               sources_gathered |-> <<>>,
               errors           |-> <<"Web search failed: " \o out.err>> ]
        ELSE [ search_results   |-> << [ query           |-> query,
                                         summary         |-> "findings",
                                         sources         |-> out.urls,
                                         task_id         |-> task_id,
                                         relevance_score |-> RelevanceOk ] >>,
               sources_gathered |-> out.urls ]

\* faulty variant: a failed search scored like a successful one
web_search_node_scores_failures(ws, out) ==
    LET query   == IF ws.query = "" THEN "General research query" ELSE ws.query
        task_id == ws.task_id
    IN  [ search_results   |-> << [ query           |-> query,
                                    summary         |-> IF out.kind = "error"
                                                        THEN out.err ELSE "findings",
                                    sources         |-> out.urls,
                                    task_id         |-> task_id,
                                    relevance_score |-> RelevanceOk ] >>,
          sources_gathered |-> out.urls ]

web_search_node(ws, out) ==
    LET query   == IF ws.query = "" THEN "General research query" ELSE ws.query
        task_id == ws.task_id
    IN  IF out.kind = "error"
        THEN [ search_results   |-> << [ query           |-> query,
                                         summary         |-> out.err,
                                         sources         |-> <<>>,
                                         task_id         |-> task_id,
                                         relevance_score |-> RelevanceError ] >>,
               sources_gathered |-> <<>>,
               errors           |-> <<"Web search failed: " \o out.err>> ]
        ELSE [ search_results   |-> << [ query           |-> query,
                                         summary         |-> "findings",
                                         sources         |-> out.urls,
                                         task_id         |-> task_id,
                                         relevance_score |-> RelevanceOk ] >>,
               sources_gathered |-> out.urls ]

\* order: the order list(all_sources) gives the set
aggregate_search_results(st, order) ==
    LET flattened_results == st.search_results
        total_queries_run == st.total_queries_run + Len(flattened_results)
    IN  [ search_results    |-> flattened_results,
          sources_gathered  |-> order,
          total_queries_run |-> total_queries_run,
          current_phase     |-> "reflection" ]

\* faulty variant: the except branch counting the loop twice
ReflectionFailed_counts_twice(st, e) ==
    [ is_sufficient       |-> TRUE,
      follow_up_queries   |-> <<>>,
      research_loop_count |-> st.research_loop_count + 2,
      current_phase       |-> "generating_answer",
      errors              |-> <<"Reflection failed: " \o e>> ]

\* the except branch of reflection_node
ReflectionFailed(st, e) ==
    [ is_sufficient       |-> TRUE,
      follow_up_queries   |-> <<>>,
      research_loop_count |-> st.research_loop_count + 1,
      current_phase       |-> "generating_answer",
      errors              |-> <<"Reflection failed: " \o e>> ]

\* faulty variant: a response that does not parse taken as a request for more
reflection_node_with_parse_failure_loops(template, st, out) ==
    LET research_loop_count == st.research_loop_count IN
    IF out.kind = "client_error" THEN ReflectionFailed(st, out.err)
    ELSE IF FormatRaises(template, ReflectionFormatArgs)
    THEN ReflectionFailed(st, "'\\n  \"is_sufficient\"'")
    ELSE IF out.kind = "call_error" THEN ReflectionFailed(st, out.err)
    ELSE LET parsed == out.kind = "json"
             is_sufficient     == IF parsed THEN out.is_sufficient ELSE FALSE
             follow_up_queries == IF parsed THEN out.follow_up_queries
                                            ELSE <<st.original_question>>
         IN  [ is_sufficient       |-> is_sufficient,
               follow_up_queries   |-> follow_up_queries,
               research_loop_count |-> research_loop_count + 1,
               current_phase       |-> IF is_sufficient THEN "generating_answer"
                                                        ELSE "search_web" ]

\* faulty variant: a response that does not parse leaving the count as it is
reflection_node_with_parse_failure_uncounted(template, st, out) ==
    LET research_loop_count == st.research_loop_count IN
    IF out.kind = "client_error" THEN ReflectionFailed(st, out.err)
    ELSE IF FormatRaises(template, ReflectionFormatArgs)
    THEN ReflectionFailed(st, "'\\n  \"is_sufficient\"'")
    ELSE IF out.kind = "call_error" THEN ReflectionFailed(st, out.err)
    ELSE LET parsed == out.kind = "json"
             is_sufficient     == IF parsed THEN out.is_sufficient ELSE TRUE
             follow_up_queries == IF parsed THEN out.follow_up_queries ELSE <<>>
         IN  [ is_sufficient       |-> is_sufficient,
               follow_up_queries   |-> follow_up_queries,
               research_loop_count |-> IF parsed THEN research_loop_count + 1
                                                 ELSE research_loop_count,
               current_phase       |-> IF is_sufficient THEN "generating_answer"
                                                        ELSE "search_web" ]

\* reflection_node with template as its user template
reflection_node_with(template, st, out) ==
    LET research_loop_count == st.research_loop_count IN
    IF out.kind = "client_error" THEN ReflectionFailed(st, out.err)
    ELSE IF FormatRaises(template, ReflectionFormatArgs)
    THEN ReflectionFailed(st, "'\\n  \"is_sufficient\"'")
    ELSE IF out.kind = "call_error" THEN ReflectionFailed(st, out.err)
    ELSE LET parsed == out.kind = "json"
             is_sufficient     == IF parsed THEN out.is_sufficient ELSE TRUE
             follow_up_queries == IF parsed THEN out.follow_up_queries ELSE <<>>
         IN  [ is_sufficient       |-> is_sufficient,
               follow_up_queries   |-> follow_up_queries,
               research_loop_count |-> research_loop_count + 1,
               current_phase       |-> IF is_sufficient THEN "generating_answer"
                                                        ELSE "search_web" ]

reflection_node(st, out) ==
    reflection_node_with(REFLECTION_USER_TEMPLATE, st, out)

\* faulty variant: the citations copied without removing repetitions
RECURSIVE Unique_keeps_repeats(_, _)
Unique_keeps_repeats(cs, seen) ==
    IF cs = <<>> THEN <<>>
    ELSE IF Head(cs) # ""
         THEN <<Head(cs)>> \o Unique_keeps_repeats(Tail(cs), seen)
         ELSE Unique_keeps_repeats(Tail(cs), seen)

\* "Remove duplicates while preserving order": empty entries are dropped too
RECURSIVE Unique(_, _)
Unique(cs, seen) ==
    IF cs = <<>> THEN <<>>
    ELSE IF Head(cs) # "" /\ Head(cs) \notin seen
         THEN <<Head(cs)>> \o Unique(Tail(cs), seen \cup {Head(cs)})
         ELSE Unique(Tail(cs), seen)

\* citations.extend(result["sources"]) over the records in state order
RECURSIVE AllSources(_)
AllSources(rs) ==
    IF rs = <<>> THEN <<>> ELSE Head(rs).sources \o AllSources(Tail(rs))

\* the queries of the records, in state order
RECURSIVE AllQueries(_)
AllQueries(rs) ==
    IF rs = <<>> THEN <<>> ELSE <<Head(rs).query>> \o AllQueries(Tail(rs))

\* faulty variant: the records' queries cited next to their sources
answer_generation_node_cites_queries(st, out) ==
    IF out.kind = "error"
    THEN [ final_answer  |-> "I apologize, but I encountered an error while generating the final answer: " \o out.err,
           citations     |-> <<>>,
           current_phase |-> "error",
           errors        |-> <<"Answer generation failed: " \o out.err>> ]
    ELSE [ final_answer  |-> out.content,
           citations     |-> Unique(AllSources(st.search_results)
                                      \o AllQueries(st.search_results), {}),
           current_phase |-> "completed" ]

\* faulty variant: a failed answer that records no error
answer_generation_node_silent_failure(st, out) ==
    IF out.kind = "error"
    THEN [ final_answer  |-> "I apologize, but I encountered an error while generating the final answer: " \o out.err,
           citations     |-> <<>>,
           current_phase |-> "error" ]
    ELSE [ final_answer  |-> out.content,
           citations     |-> Unique(AllSources(st.search_results), {}),
           current_phase |-> "completed" ]

answer_generation_node(st, out) ==
    IF out.kind = "error"
    THEN [ final_answer  |-> "I apologize, but I encountered an error while generating the final answer: " \o out.err,
           citations     |-> <<>>,
           current_phase |-> "error",
           errors        |-> <<"Answer generation failed: " \o out.err>> ]
    ELSE [ final_answer  |-> out.content,
           citations     |-> Unique(AllSources(st.search_results), {}),
           current_phase |-> "completed" ]

---------------------------------------------------------------------------
(* workflow.py: the routers and the edges of the graph *)

\* faulty variant: task ids numbered from 1
route_to_parallel_searches_from_one(st) ==
    LET follow_up_queries == st.follow_up_queries
        search_queries == IF follow_up_queries # <<>> THEN follow_up_queries
                                                      ELSE st.query_list
        task_prefix    == IF follow_up_queries # <<>>
                          THEN "followup_" \o Str(st.research_loop_count)
                          ELSE "initial"
    IN  [ i \in 1..Len(search_queries) |->
            [ query             |-> search_queries[i],
              task_id           |-> task_prefix \o "_" \o Str(i),
              original_question |-> st.original_question,
              is_followup       |-> follow_up_queries # <<>> ] ]

\* the Send list of the conditional edge after generate_queries
_route_to_parallel_searches(st) ==
    LET follow_up_queries == st.follow_up_queries
        search_queries == IF follow_up_queries # <<>> THEN follow_up_queries
                                                      ELSE st.query_list
        task_prefix    == IF follow_up_queries # <<>>
                          THEN "followup_" \o Str(st.research_loop_count)
                          ELSE "initial"
    IN  [ i \in 1..Len(search_queries) |->
            [ query             |-> search_queries[i],
              task_id           |-> task_prefix \o "_" \o Str(i - 1),
              original_question |-> st.original_question,
              is_followup       |-> follow_up_queries # <<>> ] ]

\* faulty variant: the two branches of the router exchanged
decide_research_complete_inverted(st) ==
    LET max_loops_reached == st.research_loop_count >= config.max_research_loops
        no_follow_ups     == Len(st.follow_up_queries) = 0
    IN  IF st.is_sufficient \/ max_loops_reached \/ no_follow_ups
        THEN "generate_queries"
        ELSE "answer_generation"

\* faulty variant: max_loops_reached tested with > instead of >=
decide_research_complete_off_by_one(st) ==
    LET max_loops_reached == st.research_loop_count > config.max_research_loops
        no_follow_ups     == Len(st.follow_up_queries) = 0
    IN  IF st.is_sufficient \/ max_loops_reached \/ no_follow_ups
        THEN "answer_generation"
        ELSE "generate_queries"

\* the conditional edge after reflection
_decide_research_complete(st) ==
    LET max_loops_reached == st.research_loop_count >= config.max_research_loops
        no_follow_ups     == Len(st.follow_up_queries) = 0
    IN  IF st.is_sufficient \/ max_loops_reached \/ no_follow_ups
        THEN "answer_generation"
        ELSE "generate_queries"

\* faulty variant: answer_generation wired back to itself instead of END
Edge_answer_loops(node) ==
    CASE node = "web_search"        -> "aggregate_results"
      [] node = "aggregate_results" -> "reflection"
      [] node = "answer_generation" -> "answer_generation"

\* _build_graph: the unconditional edges
Edge(node) ==
    CASE node = "web_search"        -> "aggregate_results"
      [] node = "aggregate_results" -> "reflection"
      [] node = "answer_generation" -> "END"

\* faulty variant: the superstep waiting for one task more than were sent
BarrierPassed_waits_for_one_more(ts) ==
    \A i \in 1..(Len(ts) + 1) : i \in DOMAIN ts /\ ts[i].done

\* faulty variant: the superstep ending with the first task that returns
BarrierPassed_first_done(ts) == \E i \in DOMAIN ts : ts[i].done

\* the web_search superstep is over when every Send task of it has returned
BarrierPassed(ts) == \A i \in DOMAIN ts : ts[i].done

\* the targets of a Send list: no Send, no next superstep
AfterFanOut(sends) == IF sends = <<>> THEN "END" ELSE "web_search"

\* what a task that has not returned has written: nothing
NoUpdate == [search_results |-> <<>>, sources_gathered |-> <<>>]

\* a task per Send: its input, whether it has returned, what the model did in
\* it and the partial state it returned
NewTasks(sends) ==
    [ i \in DOMAIN sends |->
        [send |-> sends[i], done |-> FALSE, out |-> NoOutcome, update |-> NoUpdate] ]

\* the writes of the finished tasks, in the order of the Send list
RECURSIVE TaskWrites(_)
TaskWrites(ts) ==
    IF ts = <<>> THEN <<>>
    ELSE (IF Head(ts).done THEN <<Head(ts).update>> ELSE <<>>)
         \o TaskWrites(Tail(ts))

---------------------------------------------------------------------------
(* workflow.py: what stream_research and stream_research_events yield while *)
(* the graph runs.  io.mode is "none" when the graph is run on its own,     *)
(* "values" under stream_research (app.astream, stream_mode="values": the   *)
(* state after the input and after every superstep), "events" under         *)
(* stream_research_events (app.astream_events: the start and the end of     *)
(* every runnable).  Every event is stamped with time.time() as it is       *)
(* yielded; io.clock is that time.                                          *)

\* no second run, no StreamingWriter
NoRun == [pc |-> "none"]
NoWriter == [callback |-> "none", phase_history |-> <<>>, calls |-> <<>>,
             delivered |-> <<>>, raised |-> FALSE]

NoIo ==
    [ mode     |-> "none",
      clock    |-> 0,
      events   |-> <<>>,
      entry    |-> "none",     \* the entry point that received the request
      question |-> <<>>,       \* the request's question, character by character
      response |-> [kind |-> "none"] ]

\* yield the events evs, each stamped with the time at which it is yielded
RECURSIVE Yield(_, _)
Yield(i, evs) ==
    IF evs = <<>> THEN i
    ELSE Yield([i EXCEPT !.clock = @ + 1,
                         !.events = Append(@, [Head(evs) EXCEPT !.timestamp = i.clock + 1])],
               Tail(evs))

\* stream_research: the update built from a chunk of app.astream
state_update(chunk) ==
    [ type |-> "state_update", node |-> chunk.current_phase,
      timestamp |-> 0, data |-> chunk ]

\* stream_research_events: on_chain_start and on_chain_end of a runnable
node_start(name) ==
    [ type |-> "node_start", node |-> name,
      timestamp |-> 0, data |-> [message |-> "Starting " \o name] ]

node_complete(name, output) ==
    [ type |-> "node_complete", node |-> name,
      timestamp |-> 0, data |-> [output |-> output] ]

\* a superstep of one node has run: update is what the node returned, st2 the
\* channels after it
NodeRan(i, name, update, st2) ==
    CASE i.mode = "values" -> Yield(i, <<state_update(st2)>>)
      [] i.mode = "events" -> Yield(i, <<node_start(name), node_complete(name, update)>>)
      [] OTHER -> i

\* the web_search superstep begins: its n tasks are started together
RECURSIVE TasksStarted(_, _)
TasksStarted(i, n) ==
    IF n = 0 \/ i.mode # "events" THEN i
    ELSE TasksStarted(Yield(i, <<node_start("web_search")>>), n - 1)

\* faulty variant: a state_update yielded for every task that returns
TaskReturned_yields_update(i, update) ==
    CASE i.mode = "events" -> Yield(i, <<node_complete("web_search", update)>>)
      [] i.mode = "values" -> Yield(i, <<[ type |-> "state_update", node |-> "search_web",
                                           timestamp |-> 0, data |-> update ]>>)
      [] OTHER -> i

\* one task of the web_search superstep has returned update
TaskReturned(i, update) ==
    IF i.mode = "events" THEN Yield(i, <<node_complete("web_search", update)>>)
    ELSE i

\* the web_search superstep is over: st2 is the channels after its writes
SuperstepEnded(i, st2) ==
    IF i.mode = "values" THEN Yield(i, <<state_update(st2)>>) ELSE i

---------------------------------------------------------------------------
(* A run of the graph: app.astream(initial_state) *)

NoHist ==
    [ batches       |-> <<>>,   \* the size of every fan-out so far
      dispatch_len  |-> 0,      \* Len(search_results) at the last fan-out
      first_queries |-> <<>>,   \* query_list after the first generate_queries
      aggregates    |-> 0,      \* executions of aggregate_results
      reflects      |-> <<>>,   \* what the reflection model answers, per execution
      answers       |-> 0,      \* executions of answer_generation
      generated     |-> <<>>,   \* how the query model's call ended, per execution
      answered      |-> <<>> ]  \* how the answer model's call ended, per execution

Configs ==
    [ max_research_loops    : 0..MaxLoopsBound,
      initial_queries_count : 0..MaxInitialQueries ]

Init ==
    /\ config \in Configs
    /\ \E q \in Questions : state = initial_state(q)
    /\ pc = "generate_queries"
    /\ tasks = <<>>
    /\ route = "START"
    /\ steps = 0
    /\ hist = NoHist
    /\ io = NoIo
    /\ other = NoRun
    /\ writer = NoWriter

GenerateQueries ==
    /\ pc = "generate_queries"
    /\ steps < MaxSteps
    /\ \E out \in QueryGenOutcomes :
         LET update == generate_queries_node(state, out)
             st2   == ApplyUpdate(state, update)
             sends == _route_to_parallel_searches(st2)
         IN  /\ state' = st2
             /\ io' = TasksStarted(NodeRan(io, "generate_queries", update, st2),
                                   Len(sends))
             /\ tasks' = NewTasks(sends)
             /\ pc' = AfterFanOut(sends)
             /\ hist' = [hist EXCEPT
                           !.batches = Append(@, Len(sends)),
                           !.dispatch_len = Len(st2.search_results),
                           !.generated = Append(@, out.kind),
                           !.first_queries = IF hist.batches = <<>>
                                             THEN st2.query_list ELSE @]
    /\ route' = "web_search"
    /\ steps' = steps + 1
    /\ UNCHANGED <<config, other, writer>>

\* one Send task of the superstep returns
WebSearch(i) ==
    /\ pc = "web_search"
    /\ ~tasks[i].done
    /\ \E out \in SearchOutcomes :
         /\ tasks' = [tasks EXCEPT ![i] =
                        [@ EXCEPT !.done = TRUE, !.out = out,
                                  !.update = web_search_node(tasks[i].send, out)]]
         /\ io' = TaskReturned(io, web_search_node(tasks[i].send, out))
    /\ UNCHANGED <<config, state, pc, route, steps, hist, other, writer>>

\* the end of the web_search superstep: the tasks' writes reach the channels
FanIn ==
    /\ pc = "web_search"
    /\ steps < MaxSteps
    /\ BarrierPassed(tasks)
    /\ state' = ApplyUpdates(state, TaskWrites(tasks))
    /\ io' = SuperstepEnded(io, ApplyUpdates(state, TaskWrites(tasks)))
    /\ pc' = Edge("web_search")
    /\ steps' = steps + 1
    /\ UNCHANGED <<config, tasks, route, hist, other, writer>>

AggregateResults ==
    /\ pc = "aggregate_results"
    /\ steps < MaxSteps
    /\ \E order \in Orderings(Range(state.sources_gathered)) :
         LET update == aggregate_search_results(state, order)
         IN  /\ state' = ApplyUpdate(state, update)
             /\ io' = NodeRan(io, "aggregate_results", update,
                              ApplyUpdate(state, update))
    /\ pc' = Edge("aggregate_results")
    /\ hist' = [hist EXCEPT !.aggregates = @ + 1]
    /\ steps' = steps + 1
    /\ UNCHANGED <<config, tasks, route, other, writer>>

Reflection ==
    /\ pc = "reflection"
    /\ steps < MaxSteps
    /\ \E out \in ReflectOutcomes :
         LET st2 == ApplyUpdate(state, reflection_node(state, out))
         IN  /\ state' = st2
             /\ io' = NodeRan(io, "reflection", reflection_node(state, out), st2)
             /\ route' = _decide_research_complete(st2)
             /\ pc' = _decide_research_complete(st2)
             /\ hist' = [hist EXCEPT !.reflects = Append(@, out)]
    /\ steps' = steps + 1
    /\ UNCHANGED <<config, tasks, other, writer>>

AnswerGeneration ==
    /\ pc = "answer_generation"
    /\ steps < MaxSteps
    /\ \E out \in AnswerOutcomes :
         /\ state' = ApplyUpdate(state, answer_generation_node(state, out))
         /\ io' = NodeRan(io, "answer_generation",
                          answer_generation_node(state, out),
                          ApplyUpdate(state, answer_generation_node(state, out)))
         /\ hist' = [hist EXCEPT !.answers = @ + 1,
                                 !.answered = Append(@, out.kind)]
    /\ pc' = Edge("answer_generation")
    /\ steps' = steps + 1
    /\ UNCHANGED <<config, tasks, route, other, writer>>

Next ==
    \/ GenerateQueries
    \/ \E i \in DOMAIN tasks : WebSearch(i)
    \/ FanIn
    \/ AggregateResults
    \/ Reflection
    \/ AnswerGeneration

Spec == Init /\ [][Next]_vars

\* every superstep of a run that has not ended is eventually executed
FairSpec == Spec /\ WF_vars(Next)

---------------------------------------------------------------------------
(* The graph past the reflection prompt.  In a run reflection_node raises  *)
(* while it formats its prompt, so the model is never asked, its response  *)
(* never parsed and no second round searched.  Here the node is given a    *)
(* user template that names the four placeholders it fills and nothing     *)
(* else; the rest of the node and of the graph is the code as it is.       *)

reflection_node_prompted(st, out) ==
    reflection_node_with(ReflectionFormatArgs, st, out)

ReflectionPrompted ==
    /\ pc = "reflection"
    /\ steps < MaxSteps
    /\ \E out \in ReflectOutcomes :
         LET st2 == ApplyUpdate(state, reflection_node_prompted(state, out))
         IN  /\ state' = st2
             /\ io' = NodeRan(io, "reflection",
                              reflection_node_prompted(state, out), st2)
             /\ route' = _decide_research_complete(st2)
             /\ pc' = _decide_research_complete(st2)
             /\ hist' = [hist EXCEPT !.reflects = Append(@, out)]
    /\ steps' = steps + 1
    /\ UNCHANGED <<config, tasks, other, writer>>

\* one query per round keeps the rounds small
LoopInit ==
    /\ Init
    /\ config.initial_queries_count = 1

LoopNext ==
    \/ GenerateQueries
    \/ \E i \in DOMAIN tasks : WebSearch(i)
    \/ FanIn
    \/ AggregateResults
    \/ ReflectionPrompted
    \/ AnswerGeneration

LoopSpec == LoopInit /\ [][LoopNext]_vars

---------------------------------------------------------------------------
(* workflow.py: a run under stream_research or stream_research_events.     *)
(* app.astream and app.astream_events are calls into the graph runtime,    *)
(* which may raise on its own account whatever the nodes do; both          *)
(* functions wrap the iteration in try/except for that case.               *)

GraphNodes ==
    {"generate_queries", "web_search", "aggregate_results", "reflection",
     "answer_generation"}

\* stream_research_events: final_state_data, the output of answer_generation
\* captured from its on_chain_end, with the defaults of the fallback `complete`
RECURSIVE final_state_data(_)
final_state_data(evs) ==
    IF evs = <<>>
    THEN [final_answer |-> "Research completed.", citations |-> <<>>]
    ELSE LET e == evs[Len(evs)] IN
         IF e.type = "node_complete" /\ e.node = "answer_generation"
         THEN [final_answer |-> e.data.output.final_answer,
               citations    |-> e.data.output.citations]
         ELSE final_state_data(SubSeq(evs, 1, Len(evs) - 1))

\* the `complete` event of stream_research: the last chunk, no timestamp
complete_values(chunk) ==
    [type |-> "complete", node |-> "", timestamp |-> 0, data |-> chunk]

\* the `complete` event of stream_research_events.  The graph is compiled
\* without a checkpointer, so app.aget_state raises and the event is built
\* from final_state_data
complete_events(evs) ==
    [type |-> "complete", node |-> "", timestamp |-> 0, data |-> final_state_data(evs)]

error_event(e) ==
    [type |-> "error", node |-> "", timestamp |-> 0, data |-> [error |-> e]]

\* the configuration the streamed runs are followed under
StreamConfigs ==
    [ max_research_loops    : {1},
      initial_queries_count : {2},
      parallel_search_limit : {1, 5} ]

StreamInit ==
    /\ config \in StreamConfigs
    /\ \E q \in Questions : state = initial_state(q)
    /\ pc = "start"
    /\ tasks = <<>>
    /\ route = "START"
    /\ steps = 0
    /\ hist = NoHist
    /\ \E m \in {"values", "events"} : io = [NoIo EXCEPT !.mode = m]
    /\ other = NoRun
    /\ writer = NoWriter

\* the iteration begins: astream yields the state after the input,
\* astream_events the on_chain_start of the graph itself
StartStream ==
    /\ pc = "start"
    /\ io.mode \in {"values", "events"}
    /\ io' = IF io.mode = "values" THEN Yield(io, <<state_update(state)>>)
                                   ELSE Yield(io, <<node_start("LangGraph")>>)
    /\ pc' = "generate_queries"
    /\ UNCHANGED <<config, state, tasks, route, steps, hist, other, writer>>

\* the iteration is exhausted: the code after the loop
EndStream ==
    /\ pc = "END"
    /\ io.mode \in {"values", "events"}
    /\ io' = IF io.mode = "values"
             THEN [io EXCEPT !.events = Append(@, complete_values(state))]
             ELSE LET i2 == Yield(io, <<node_complete("LangGraph", state)>>)
                  IN  Yield(i2, <<complete_events(i2.events)>>)
    /\ pc' = "done"
    /\ UNCHANGED <<config, state, tasks, route, steps, hist, other, writer>>

\* the iteration raises: the except branch, and the code after it
AstreamRaises ==
    /\ pc \in GraphNodes
    /\ io.mode \in {"values", "events"}
    /\ \E e \in ErrTexts :
         io' = IF io.mode = "values"
               THEN Yield(io, <<error_event(e)>>)
               ELSE LET i2 == Yield(io, <<error_event(e)>>)
                    IN  Yield(i2, <<complete_events(i2.events)>>)
    /\ pc' = "done"
    /\ UNCHANGED <<config, state, tasks, route, steps, hist, other, writer>>

StreamNext ==
    \/ StartStream
    \/ GenerateQueries
    \/ \E i \in DOMAIN tasks : WebSearch(i)
    \/ FanIn
    \/ AggregateResults
    \/ Reflection
    \/ AnswerGeneration
    \/ EndStream
    \/ AstreamRaises

StreamSpec == StreamInit /\ [][StreamNext]_vars

---------------------------------------------------------------------------
(* api.py: research_stream_endpoint.generate_stream with stream_mode =     *)
(* "events": the Server-Sent-Events frames made from the events of         *)
(* stream_research_events.                                                 *)

\* node_states: the nodes whose events are forwarded
node_states == GraphNodes

\* faulty variant: event_counter a module-level counter, which the frames of
\* the other run have advanced
NoFrames_global_counter ==
    [ event_counter    |-> IF other.pc = "none" THEN 0 ELSE Len(other.io.events),
      node_start_times |-> [n \in {} |-> 0],
      final_answer     |-> "",
      citations        |-> <<>>,
      frames           |-> <<>> ]

NoFrames ==
    [ event_counter    |-> 0,
      node_start_times |-> [n \in {} |-> 0],
      final_answer     |-> "",
      citations        |-> <<>>,
      frames           |-> <<>> ]

\* faulty variant: the counter left alone after a node_start frame
sse_frame_counter_skips_starts(acc, e) ==
    IF e.node \notin node_states THEN acc
    ELSE IF e.type = "node_start"
    THEN [acc EXCEPT
            !.node_start_times =
                [n \in DOMAIN @ \cup {e.node} |->
                    IF n = e.node THEN e.timestamp ELSE @[n]],
            !.frames = Append(@, [ id |-> acc.event_counter,
                                   event |-> "node_start", type |-> "node_start",
                                   nodeId |-> e.node, output |-> e.data,
                                   duration |-> 0, timestamp |-> e.timestamp ])]
    ELSE IF e.type = "node_complete"
    THEN LET start_ts == IF e.node \in DOMAIN acc.node_start_times
                         THEN acc.node_start_times[e.node] ELSE e.timestamp
         IN  [acc EXCEPT
                !.final_answer = IF e.node = "answer_generation"
                                 THEN e.data.output.final_answer ELSE @,
                !.citations = IF e.node = "answer_generation"
                              THEN e.data.output.citations ELSE @,
                !.frames = Append(@, [ id |-> acc.event_counter,
                                       event |-> "node_complete",
                                       type |-> "node_complete",
                                       nodeId |-> e.node, output |-> e.data,
                                       duration |-> (e.timestamp - start_ts) * 1000,
                                       timestamp |-> e.timestamp ]),
                !.event_counter = @ + 1]
    ELSE acc

\* the body of the loop over the events: one event handled
sse_frame(acc, e) ==
    IF e.node \notin node_states THEN acc
    ELSE IF e.type = "node_start"
    THEN [acc EXCEPT
            !.node_start_times =
                [n \in DOMAIN @ \cup {e.node} |->
                    IF n = e.node THEN e.timestamp ELSE @[n]],
            !.frames = Append(@, [ id |-> acc.event_counter,
                                   event |-> "node_start", type |-> "node_start",
                                   nodeId |-> e.node, output |-> e.data,
                                   duration |-> 0, timestamp |-> e.timestamp ]),
            !.event_counter = @ + 1]
    ELSE IF e.type = "node_complete"
    THEN LET start_ts == IF e.node \in DOMAIN acc.node_start_times
                         THEN acc.node_start_times[e.node] ELSE e.timestamp
         IN  [acc EXCEPT
                !.final_answer = IF e.node = "answer_generation"
                                 THEN e.data.output.final_answer ELSE @,
                !.citations = IF e.node = "answer_generation"
                              THEN e.data.output.citations ELSE @,
                !.frames = Append(@, [ id |-> acc.event_counter,
                                       event |-> "node_complete",
                                       type |-> "node_complete",
                                       nodeId |-> e.node, output |-> e.data,
                                       duration |-> (e.timestamp - start_ts) * 1000,
                                       timestamp |-> e.timestamp ]),
                !.event_counter = @ + 1]
    ELSE acc

RECURSIVE sse_frames(_, _)
sse_frames(acc, evs) ==
    IF evs = <<>> THEN acc ELSE sse_frames(sse_frame(acc, Head(evs)), Tail(evs))

\* the complete frame emitted after the loop
sse_complete(acc) ==
    [ id |-> acc.event_counter, event |-> "complete", type |-> "complete",
      nodeId |-> "",
      output |-> [final_answer |-> acc.final_answer, citations |-> acc.citations],
      duration |-> 0, timestamp |-> 0 ]

\* the frames sent for the events evs; finished: the iteration is exhausted
generate_stream(evs, finished) ==
    LET acc == sse_frames(NoFrames, evs)
    IN  IF finished THEN Append(acc.frames, sse_complete(acc)) ELSE acc.frames

---------------------------------------------------------------------------
(* api.py and workflow.py: the entry points.  A request carries a question *)
(* (a string, here the sequence of its characters) and is served by one of *)
(* POST /research, POST /research/stream, the WebSocket /research/ws,      *)
(* POST /threads/{id}/runs, or by a direct call of run_research_agent.     *)
(* Requests use the default stream_mode, "values".                         *)

Chars == {" ", "Q"}

RequestQuestions == SeqsUpTo(Chars, MaxQuestionLen)

\* faulty variant: str.strip() leaving the string as it is
strip_keeps_whitespace(q) == q

\* str.strip(): leading and trailing whitespace removed
RECURSIVE strip(_)
strip(q) ==
    IF q = <<>> THEN q
    ELSE IF Head(q) = " " THEN strip(Tail(q))
    ELSE IF q[Len(q)] = " " THEN strip(SubSeq(q, 1, Len(q) - 1))
    ELSE q

\* the string of a sequence of characters
RECURSIVE Text(_)
Text(q) == IF q = <<>> THEN "" ELSE Head(q) \o Text(Tail(q))

\* config.validate()
validate(c) == c.demo_mode \/ strip(c.google_ai_api_key) # <<>>

Entries ==
    {"research_endpoint", "research_stream_endpoint", "research_websocket",
     "run_thread", "run_research_agent"}

ServiceConfigs ==
    [ max_research_loops    : {1},
      initial_queries_count : {1},
      parallel_search_limit : {5},
      demo_mode             : BOOLEAN,
      google_ai_api_key     : {<<>>, <<"k">>} ]

\* the payload of the last `complete` event of a sequence, NoResult without one
NoResult == [none |-> TRUE]

RECURSIVE final_result(_)
final_result(evs) ==
    IF evs = <<>> THEN NoResult
    ELSE IF evs[Len(evs)].type = "complete" THEN evs[Len(evs)].data
    ELSE final_result(SubSeq(evs, 1, Len(evs) - 1))

\* what research_endpoint returns from its except branch
research_failed(e) ==
    [ kind |-> "json", success |-> FALSE,
      final_answer |-> "Error occurred during research process.",
      citations |-> <<>>, error |-> e ]

\* faulty variant: a drained sequence without `complete` reported as a success
research_endpoint_always_succeeds(evs) ==
    LET r == final_result(evs) IN
    IF r = NoResult
    THEN [ kind |-> "json", success |-> TRUE, final_answer |-> "",
           citations |-> <<>>, errors |-> <<>>, error |-> "" ]
    ELSE [ kind |-> "json", success |-> TRUE,
           final_answer |-> r.final_answer, citations |-> r.citations,
           errors |-> r.errors, error |-> "" ]

\* research_endpoint once stream_research is drained
research_endpoint(evs) ==
    LET r == final_result(evs) IN
    IF r = NoResult THEN research_failed("500: No final result received")
    ELSE [ kind |-> "json", success |-> TRUE,
           final_answer |-> r.final_answer, citations |-> r.citations,
           errors |-> r.errors, error |-> "" ]

\* run_research_agent once stream_research is drained: the data of `complete`
\* or the placeholder result
run_research_agent(evs) ==
    LET r == final_result(evs) IN
    IF r = NoResult
    THEN [ kind |-> "dict",
           final_answer |-> "Research completed but no final result available",
           citations |-> <<>>, errors |-> <<"No final result received">> ]
    ELSE [ kind |-> "dict", final_answer |-> r.final_answer,
           citations |-> r.citations, errors |-> r.errors ]

\* generate_stream with stream_mode = "values", and the loop of the WebSocket:
\* the kinds of the frames or messages sent for the updates of stream_research
RECURSIVE forwarded(_, _)
forwarded(evs, stop_at_complete) ==
    IF evs = <<>> THEN <<>>
    ELSE LET e == Head(evs) IN
         IF e.type = "state_update"
         THEN <<"timeline_update", "state_update">> \o forwarded(Tail(evs), stop_at_complete)
         ELSE IF e.type = "complete"
         THEN IF stop_at_complete THEN <<"research_complete">>
              ELSE <<"research_complete", "complete">> \o forwarded(Tail(evs), stop_at_complete)
         ELSE <<e.type>> \o forwarded(Tail(evs), stop_at_complete)

EntryInit ==
    /\ config \in ServiceConfigs
    /\ \E e \in Entries, q \in RequestQuestions :
         /\ io = [NoIo EXCEPT !.entry = e, !.question = q]
         /\ state = initial_state(Text(q))
    /\ pc = "request"
    /\ tasks = <<>>
    /\ route = "START"
    /\ steps = 0
    /\ hist = NoHist
    /\ other = NoRun
    /\ writer = NoWriter

\* POST /research: research_endpoint up to the call of stream_research
ResearchEndpoint ==
    /\ pc = "request" /\ io.entry = "research_endpoint"
    /\ IF strip(io.question) = <<>>
       THEN /\ io' = [io EXCEPT !.response =
                         research_failed("400: Question cannot be empty")]
            /\ pc' = "responded"
       ELSE /\ io' = [io EXCEPT !.mode = "values"]
            /\ pc' = "start"
    /\ UNCHANGED <<config, state, tasks, route, steps, hist, other, writer>>

\* POST /research/stream: the HTTPException raised for an empty question is
\* caught by the handler's own except and raised again with status 500
ResearchStreamEndpoint ==
    /\ pc = "request" /\ io.entry = "research_stream_endpoint"
    /\ IF strip(io.question) = <<>>
       THEN /\ io' = [io EXCEPT !.response =
                         [ kind |-> "http_error", status |-> 500,
                           detail |-> "400: Question cannot be empty" ]]
            /\ pc' = "responded"
       ELSE /\ io' = [io EXCEPT !.mode = "values"]
            /\ pc' = "start"
    /\ UNCHANGED <<config, state, tasks, route, steps, hist, other, writer>>

\* WebSocket /research/ws: one message received
ResearchWebsocket ==
    /\ pc = "request" /\ io.entry = "research_websocket"
    /\ IF strip(io.question) = <<>>
       THEN /\ io' = [io EXCEPT !.response =
                         [ kind |-> "ws_messages",
                           messages |-> <<"error">>,
                           error |-> "Question cannot be empty" ]]
            /\ pc' = "responded"
       ELSE /\ io' = [io EXCEPT !.mode = "values"]
            /\ pc' = "start"
    /\ UNCHANGED <<config, state, tasks, route, steps, hist, other, writer>>

\* POST /threads/{id}/runs: `not question` rejects the empty string, every
\* other question is handed to research_stream_endpoint
RunThread ==
    /\ pc = "request" /\ io.entry = "run_thread"
    /\ IF io.question = <<>>
       THEN /\ io' = [io EXCEPT !.response =
                         [ kind |-> "http_error", status |-> 400,
                           detail |-> "First message missing content" ]]
            /\ pc' = "responded"
       ELSE IF strip(io.question) = <<>>
       THEN /\ io' = [io EXCEPT !.response =
                         [ kind |-> "http_error", status |-> 500,
                           detail |-> "400: Question cannot be empty" ]]
            /\ pc' = "responded"
       ELSE /\ io' = [io EXCEPT !.mode = "values"]
            /\ pc' = "start"
    /\ UNCHANGED <<config, state, tasks, route, steps, hist, other, writer>>

\* run_research_agent(question): nothing is checked before stream_research
RunResearchAgent ==
    /\ pc = "request" /\ io.entry = "run_research_agent"
    /\ io' = [io EXCEPT !.mode = "values"]
    /\ pc' = "start"
    /\ UNCHANGED <<config, state, tasks, route, steps, hist, other, writer>>

\* stream_research is drained: what the entry point answers
Respond ==
    /\ pc = "done" /\ io.entry \in Entries
    /\ io' = [io EXCEPT !.response =
                CASE io.entry = "research_endpoint" -> research_endpoint(io.events)
                  [] io.entry = "run_research_agent" -> run_research_agent(io.events)
                  [] io.entry = "research_websocket" ->
                       [ kind |-> "ws_messages",
                         messages |-> <<"research_started">> \o forwarded(io.events, TRUE),
                         error |-> "" ]
                  [] OTHER ->
                       [ kind |-> "sse", frames |-> forwarded(io.events, FALSE) ]]
    /\ pc' = "responded"
    /\ UNCHANGED <<config, state, tasks, route, steps, hist, other, writer>>

EntryNext ==
    \/ ResearchEndpoint
    \/ ResearchStreamEndpoint
    \/ ResearchWebsocket
    \/ RunThread
    \/ RunResearchAgent
    \/ StartStream
    \/ GenerateQueries
    \/ \E i \in DOMAIN tasks : WebSearch(i)
    \/ FanIn
    \/ AggregateResults
    \/ Reflection
    \/ AnswerGeneration
    \/ EndStream
    \/ AstreamRaises
    \/ Respond

EntrySpec == EntryInit /\ [][EntryNext]_vars

\* the runtime executes every superstep that is ready, but nothing makes a
\* pending model call of a Search task return
StepFairSpec ==
    /\ Spec
    /\ WF_vars(GenerateQueries \/ FanIn \/ AggregateResults \/ Reflection
                  \/ AnswerGeneration)

---------------------------------------------------------------------------
(* Two requests served by one process.  Both go through the module-level   *)
(* workflow_instance; each call of stream_research_events builds its own    *)
(* initial_state and its own iteration of app.astream_events (the graph is  *)
(* compiled without a checkpointer), and each call of generate_stream has   *)
(* its own event_counter and node_start_times.  The event loop executes one *)
(* run at a time and may leave it for the other at any await.               *)

\* the run the event loop is executing
ThisRun ==
    [ state |-> state, pc |-> pc, tasks |-> tasks, route |-> route,
      steps |-> steps, hist |-> hist, io |-> io ]

\* a run about to begin, in event mode
NewRun(question) ==
    [ state |-> initial_state(Text(question)), pc |-> "start", tasks |-> <<>>,
      route |-> "START", steps |-> 0, hist |-> NoHist,
      io |-> [NoIo EXCEPT !.mode = "events", !.question = question] ]

PairConfigs ==
    [ max_research_loops    : {1},
      initial_queries_count : {1},
      parallel_search_limit : {5} ]

PairInit ==
    /\ config \in PairConfigs
    /\ state = NewRun(<<"Q">>).state
    /\ pc = "start"
    /\ tasks = <<>>
    /\ route = "START"
    /\ steps = 0
    /\ hist = NoHist
    /\ io = NewRun(<<"Q">>).io
    /\ other = NewRun(<<"Q", "Q">>)
    /\ writer = NoWriter

\* the event loop suspends the run it is executing and resumes the other
Switch ==
    /\ other.pc # "none"
    /\ steps + other.steps < MaxPairSteps
    /\ other' = ThisRun
    /\ state' = other.state
    /\ pc' = other.pc
    /\ tasks' = other.tasks
    /\ route' = other.route
    /\ steps' = other.steps
    /\ hist' = other.hist
    /\ io' = other.io
    /\ UNCHANGED <<config, writer>>

PairNext ==
    \/ StartStream
    \/ GenerateQueries
    \/ \E i \in DOMAIN tasks : WebSearch(i)
    \/ FanIn
    \/ AggregateResults
    \/ Reflection
    \/ AnswerGeneration
    \/ EndStream
    \/ AstreamRaises
    \/ Switch

PairSpec == PairInit /\ [][PairNext]_vars

---------------------------------------------------------------------------
(* streaming.py: a StreamingWriter and the updates sent through it.  The    *)
(* callback is the caller's: there is none, or it is a function that        *)
(* returns or raises, or one that returns a coroutine which, awaited,       *)
(* returns or raises.  What it raises is an Exception.                      *)

Callbacks == {"none", "returns", "raises", "coroutine_returns", "coroutine_raises"}

WriterPhases == {"generating_queries", "search_web"}

UpdateTypes == {"progress", "completion", "error", "unknown"}

WriterMessages == {"m1", "m2"}

\* phase_history.get(phase, [])
History(h, phase) == IF phase \in DOMAIN h THEN h[phase] ELSE <<>>

\* phase_history.setdefault(phase, []).append(message)
Recorded(h, phase, message) ==
    [p \in DOMAIN h \cup {phase} |->
        IF p = phase THEN Append(History(h, phase), message) ELSE h[p]]

\* the envelope send_update builds
timeline_update(phase, update_type, data) ==
    [ phase  |-> phase,
      status |-> CASE update_type = "progress"   -> "in_progress"
                   [] update_type = "completion" -> "completed"
                   [] OTHER                      -> "error",
      progress_message |-> IF update_type = "completion" THEN "" ELSE data.message ]

\* faulty variant: the message recorded once the callback has returned, and the
\* callback called outside any try
send_update_records_after_callback(w, phase, update_type, data) ==
    LET called == [w EXCEPT !.calls = Append(@, [ phase |-> phase,
                                                  update_type |-> update_type,
                                                  message |-> data.message ])]
        fails  == w.callback \in {"raises", "coroutine_raises"}
    IN  IF update_type \notin {"progress", "completion", "error"} THEN called
        ELSE IF w.callback # "none" /\ fails
        THEN [called EXCEPT
                !.delivered = Append(@, timeline_update(phase, update_type, data)),
                !.raised = TRUE]
        ELSE [called EXCEPT
                !.phase_history = IF update_type = "progress"
                                  THEN Recorded(@, phase, data.message) ELSE @,
                !.delivered = IF w.callback = "none" THEN @
                              ELSE Append(@, timeline_update(phase, update_type, data))]

\* StreamingWriter.send_update: the writer after the call; raised says whether
\* an exception left the call
send_update(w, phase, update_type, data) ==
    LET called == [w EXCEPT
                     !.calls = Append(@, [ phase |-> phase,
                                           update_type |-> update_type,
                                           message |-> data.message ]),
                     !.phase_history = IF update_type = "progress"
                                       THEN Recorded(@, phase, data.message) ELSE @]
        thrown == IF w.callback \in {"raises", "coroutine_raises"}
                  THEN "Exception" ELSE "nothing"
        caught == thrown = "Exception"
    IN  IF update_type \notin {"progress", "completion", "error"} THEN called
        ELSE IF w.callback = "none" THEN called
        ELSE [called EXCEPT
                !.delivered = Append(@, timeline_update(phase, update_type, data)),
                !.raised = @ \/ (thrown # "nothing" /\ ~caught)]

WriterInit ==
    /\ config \in Configs
    /\ config.max_research_loops = 1 /\ config.initial_queries_count = 1
    /\ state = initial_state("Q")
    /\ pc = "writer"
    /\ tasks = <<>>
    /\ route = "START"
    /\ steps = 0
    /\ hist = NoHist
    /\ io = NoIo
    /\ other = NoRun
    /\ \E c \in Callbacks : writer = [NoWriter EXCEPT !.callback = c]

\* stream_progress, stream_completion, stream_error or a direct send_update
SendUpdate ==
    /\ pc = "writer"
    /\ Len(writer.calls) < MaxUpdates
    /\ \E phase \in WriterPhases, update_type \in UpdateTypes,
          message \in WriterMessages :
         writer' = send_update(writer, phase, update_type, [message |-> message])
    /\ UNCHANGED <<config, state, pc, tasks, route, steps, hist, io, other>>

WriterNext == SendUpdate

WriterSpec == WriterInit /\ [][WriterNext]_vars

---------------------------------------------------------------------------
(* The two routers on their own, called on a state as the unit tests call  *)
(* them: _route_to_parallel_searches on a state generate_queries can leave *)
(* (nothing reflected yet, or sent back by reflection with follow-ups),    *)
(* _decide_research_complete on a state reflection can leave.              *)

RouterInit ==
    /\ config \in Configs
    /\ pc \in {"at_route", "at_decide"}
    /\ \E ql \in SeqsUpTo(QueryPool, MaxModelQueries), suff \in BOOLEAN,
          n \in 0..MaxLoopInput, fu \in FollowUpLists :
         /\ pc = "at_route" =>
              \/ n = 0 /\ fu = <<>> /\ ~suff
              \/ n >= 1 /\ fu # <<>> /\ ~suff /\ n < config.max_research_loops
         /\ pc = "at_decide" => n >= 1
         /\ state = [initial_state("Q") EXCEPT
                       !.query_list = ql, !.is_sufficient = suff,
                       !.research_loop_count = n, !.follow_up_queries = fu]
    /\ tasks = <<>>
    /\ route = "START"
    /\ steps = 0
    /\ hist = NoHist
    /\ io = NoIo
    /\ other = NoRun
    /\ writer = NoWriter

RouteStep ==
    /\ pc = "at_route"
    /\ tasks' = NewTasks(_route_to_parallel_searches(state))
    /\ pc' = "routed"
    /\ UNCHANGED <<config, state, route, steps, hist, io, other, writer>>

DecideStep ==
    /\ pc = "at_decide"
    /\ route' = _decide_research_complete(state)
    /\ pc' = "decided"
    /\ UNCHANGED <<config, state, tasks, steps, hist, io, other, writer>>

RouterNext == RouteStep \/ DecideStep

RouterSpec == RouterInit /\ [][RouterNext]_vars

---------------------------------------------------------------------------
(* Claims *)

MaxOf(a, b) == IF a >= b THEN a ELSE b

\* C1 as stated: research_loop_count never decreases and never exceeds
\* config.max_research_loops, for every max_research_loops >= 0.
C1_LoopCountWithinMax ==
    /\ [](state.research_loop_count <= config.max_research_loops)
    /\ [][state'.research_loop_count >= state.research_loop_count]_vars

\* C1 amended: research_loop_count never decreases and never exceeds
\* max(1, max_research_loops): reflection runs, and counts, once even when
\* max_research_loops is 0.
C1_LoopCountWithinMaxOrOne ==
    /\ [](state.research_loop_count
            <= MaxOf(1, config.max_research_loops))
    /\ [][state'.research_loop_count >= state.research_loop_count]_vars

C1_Witness ==
    /\ pc = "END"
    /\ Len(hist.reflects) = 1
    /\ state.research_loop_count = 1
    /\ config.max_research_loops = 1

\* C2: every run terminates: whatever the models answer, the graph reaches END
\* (or runs out of nodes to execute) after finitely many supersteps.
C2_Terminates == <>(pc = "END")

C2_Witness ==
    /\ pc = "END"
    /\ hist.answers = 1
    /\ \E i \in DOMAIN hist.reflects :
         /\ hist.reflects[i].kind = "json"
         /\ ~hist.reflects[i].is_sufficient
         /\ hist.reflects[i].follow_up_queries # <<>>

\* the three stop conditions of the loop, as the specification words them
StopCondition(st) ==
    \/ st.is_sufficient = TRUE
    \/ st.research_loop_count >= config.max_research_loops
    \/ st.follow_up_queries = <<>>

\* C3: after reflection the router returns answer_generation if and only if
\* is_sufficient, or research_loop_count >= max_research_loops, or there is no
\* follow-up query; in every other state it returns generate_queries.
C3_DecideIffStop ==
    pc = "decided" =>
        /\ route = "answer_generation" <=> StopCondition(state)
        /\ ~StopCondition(state) => route = "generate_queries"

C3_Witness ==
    /\ pc = "decided"
    /\ route = "generate_queries"
    /\ state.research_loop_count = 1
    /\ config.max_research_loops = 2

Last(s) == s[Len(s)]

\* C4 as stated: a run in which the first generate_queries yields at least one
\* query ends with answer_generation executed, a non-empty final_answer and
\* current_phase completed or error.
C4_RunEndsWithAnswer ==
    (pc = "END" /\ hist.first_queries # <<>>) =>
        /\ hist.answers >= 1
        /\ state.final_answer # ""
        /\ state.current_phase \in {"completed", "error"}

\* C5 as stated: when generate_queries yields no query, aggregate_results and
\* reflection still execute and the run ends with current_phase completed.
C5_EmptyFanOutCompletes ==
    (pc = "END" /\ hist.first_queries = <<>>) =>
        /\ hist.aggregates >= 1
        /\ Len(hist.reflects) >= 1
        /\ Len(hist.reflects) <= MaxOf(1, config.max_research_loops)
        /\ state.current_phase = "completed"

\* C6: the state aggregate_results receives holds exactly N Evidence Records
\* more than the state at dispatch, N the number of Search tasks dispatched.
C6_OneRecordPerTask ==
    pc = "aggregate_results" =>
        Len(state.search_results) = hist.dispatch_len + Last(hist.batches)

C6_Witness ==
    /\ pc = "aggregate_results"
    /\ Last(hist.batches) = 3
    /\ \E i, j \in DOMAIN tasks :
         tasks[i].out.kind = "error" /\ tasks[j].out.kind = "ok"

\* the fan-outs so far that dispatched at least one Search task
RECURSIVE NonEmpty(_)
NonEmpty(bs) ==
    IF bs = <<>> THEN 0
    ELSE (IF Head(bs) > 0 THEN 1 ELSE 0) + NonEmpty(Tail(bs))

\* C7: aggregate_results is a strict barrier: the web_search superstep is not
\* left while a task of the batch has not returned, and aggregate_results has
\* run once per batch of tasks when reflection starts, never more often.
C7_StrictBarrier ==
    /\ [][(pc = "web_search" /\ pc' # "web_search")
            => \A i \in DOMAIN tasks : tasks[i].done]_vars
    /\ [](hist.aggregates <= NonEmpty(hist.batches))
    /\ [](pc \in {"reflection", "answer_generation"}
            => hist.aggregates = NonEmpty(hist.batches))

C7_Witness ==
    /\ pc = "reflection"
    /\ Len(tasks) = 3
    /\ hist.aggregates = 1

\* the Evidence Record of a failed task, but for its query
FailureRecordOf(t) ==
    /\ Len(t.update.search_results) = 1
    /\ t.update.search_results[1].task_id = t.send.task_id
    /\ t.update.search_results[1].relevance_score = 0
    /\ t.update.search_results[1].sources = <<>>
    /\ t.update.search_results[1].summary = t.out.err
    /\ "errors" \in DOMAIN t.update
    /\ Len(t.update.errors) = 1

\* C8 as stated: a Search task whose model call fails returns exactly one
\* Evidence Record carrying the task's query and task_id, relevance_score 0.0,
\* no sources and the error text as summary, and one entry for errors.
C8_FailureRecordCarriesQuery ==
    \A i \in DOMAIN tasks :
        (tasks[i].done /\ tasks[i].out.kind = "error") =>
            /\ FailureRecordOf(tasks[i])
            /\ tasks[i].update.search_results[1].query = tasks[i].send.query

\* C8 amended: the record carries the task's query unless that query is empty:
\* then it carries "General research query".
C8_FailureRecordCarriesQueryOrDefault ==
    \A i \in DOMAIN tasks :
        (tasks[i].done /\ tasks[i].out.kind = "error") =>
            /\ FailureRecordOf(tasks[i])
            /\ tasks[i].update.search_results[1].query =
                 IF tasks[i].send.query = "" THEN "General research query"
                                             ELSE tasks[i].send.query

C8_Witness ==
    \E i, j \in DOMAIN tasks :
        /\ tasks[i].done /\ tasks[i].out.kind = "error" /\ tasks[i].send.query = ""
        /\ tasks[j].done /\ tasks[j].out.kind = "error" /\ tasks[j].send.query = "q"

\* C9 as stated: with max_research_loops = 2 and a reflection model that answers
\* is_sufficient = false with two follow-up queries in the first round, the run
\* fans out a second time to exactly two tasks, reflects a second time, counts
\* two loops and then answers.
C9_ForcedLoop ==
    ( /\ pc = "END"
      /\ config.max_research_loops = 2
      /\ hist.reflects # <<>>
      /\ hist.reflects[1].kind = "json"
      /\ ~hist.reflects[1].is_sufficient
      /\ Len(hist.reflects[1].follow_up_queries) = 2 ) =>
        /\ Len(hist.batches) = 2
        /\ hist.batches[2] = 2
        /\ Len(hist.reflects) = 2
        /\ state.research_loop_count = 2
        /\ hist.answers = 1

\* the task id the specification gives task i (from 0) of a round
ExpectedTaskId(loop_count, i) ==
    IF loop_count = 0 THEN "initial_" \o Str(i)
    ELSE "followup_" \o Str(loop_count) \o "_" \o Str(i)

\* C10: the router dispatches one task per entry of follow_up_queries when that
\* list is not empty and else one per entry of query_list, in index order; task
\* i carries that entry as query and is named initial_<i> in the first round,
\* followup_<loopCount>_<i> in the later ones.
C10_OneTaskPerQuery ==
    pc = "routed" =>
        LET entries == IF state.follow_up_queries # <<>>
                       THEN state.follow_up_queries ELSE state.query_list
        IN  /\ Len(tasks) = Len(entries)
            /\ \A i \in DOMAIN tasks :
                 /\ tasks[i].send.query = entries[i]
                 /\ tasks[i].send.task_id =
                      ExpectedTaskId(state.research_loop_count, i - 1)

C10_Witness ==
    /\ pc = "routed"
    /\ state.research_loop_count = 1
    /\ state.query_list = <<"q", "q">>
    /\ Len(tasks) = 2
    /\ tasks[1].send.query = "f1" /\ tasks[1].send.task_id = "followup_1_0"
    /\ tasks[2].send.query = "f2" /\ tasks[2].send.task_id = "followup_1_1"

\* no entry of the list occurs twice
NoDup(s) == \A i, j \in DOMAIN s : s[i] = s[j] => i = j

RECURSIVE Sum(_)
Sum(ns) == IF ns = <<>> THEN 0 ELSE Head(ns) + Sum(Tail(ns))

\* the URLs the Search tasks have returned: those of the Evidence Records
DiscoveredUrls == UNION {Range(state.search_results[i].sources) :
                            i \in DOMAIN state.search_results}

\* C11 as stated: after every execution of aggregate_results, sources_gathered
\* contains every URL a Search task has returned so far and no URL twice.
C11_SourcesDeduplicated ==
    (pc = "reflection" /\ hist.aggregates >= 1) =>
        /\ DiscoveredUrls \subseteq Range(state.sources_gathered)
        /\ NoDup(state.sources_gathered)

\* C12 as stated: aggregate_results executed on a state whose sources_gathered
\* holds no URL twice leaves sources_gathered as it was.
C12_AggregateIdempotent ==
    [][(pc = "aggregate_results" /\ pc' = "reflection"
          /\ NoDup(state.sources_gathered))
        => state'.sources_gathered = state.sources_gathered]_vars

C14_RecordsAppendOnly ==
    pc # "web_search" => Len(state.search_results) = Sum(hist.batches)

\* where a URL occurs in the Evidence Records: (record, place in its sources)
Positions(u) ==
    UNION { { <<r, k>> : k \in {k \in DOMAIN state.search_results[r].sources :
                                   state.search_results[r].sources[k] = u} } :
            r \in DOMAIN state.search_results }

Before(p, q) == p[1] < q[1] \/ (p[1] = q[1] /\ p[2] < q[2])

FirstPosition(u) ==
    CHOOSE p \in Positions(u) : \A q \in Positions(u) : p = q \/ Before(p, q)

\* C15: the citations answer_generation produces hold no entry twice, and they
\* are in the order in which their first occurrences are met when the Evidence
\* Records are scanned in state order, each record's sources in order.
C15_CitationsFirstSeenOrder ==
    hist.answered # <<>> =>
        /\ NoDup(state.citations)
        /\ \A i, j \in DOMAIN state.citations :
             i < j => Before(FirstPosition(state.citations[i]),
                             FirstPosition(state.citations[j]))

C15_Witness ==
    /\ pc = "END"
    /\ state.citations = <<"u1", "u2">>
    /\ state.search_results[1].sources = <<"u1">>
    /\ state.search_results[2].sources = <<"u2", "u1">>

\* C16: every entry of the final citations is a URL in the sources of some
\* Evidence Record, returned by some Search task of the run; a URL no task
\* discovered is never cited.
C16_CitationsWereDiscovered ==
    hist.answered # <<>> =>
        \A i \in DOMAIN state.citations :
            /\ state.citations[i] \in DiscoveredUrls
            /\ \E t \in DOMAIN tasks :
                 state.citations[i] \in Range(tasks[t].out.urls)

C16_Witness ==
    /\ pc = "END"
    /\ state.citations = <<"u1">>
    /\ Len(tasks) = 2
    /\ tasks[1].out.kind = "error"
    /\ tasks[2].out.urls = <<"u1">>

\* C17: answer_generation never raises: when its model call fails the node
\* still returns, with a non-empty apology as final_answer, no citations,
\* current_phase error and exactly one more entry in errors, and the run ends.
C17_AnswerFailureIsReported ==
    [][(pc = "answer_generation"
          /\ Len(hist'.answered) = Len(hist.answered) + 1
          /\ Last(hist'.answered) = "error")
        => /\ pc' = "END"
           /\ state'.final_answer # ""
           /\ state'.citations = <<>>
           /\ state'.current_phase = "error"
           /\ Len(state'.errors) = Len(state.errors) + 1]_vars

C17_Witness ==
    /\ pc = "END"
    /\ hist.answered = <<"error">>
    /\ state.current_phase = "error"
    /\ DiscoveredUrls # {}
    /\ state.citations = <<>>

\* the first generate_queries has run and no Search task has written yet
JustGenerated ==
    /\ Len(hist.generated) = 1
    /\ pc = "web_search" \/ (pc = "END" /\ hist.answers = 0)

C19_ParseFailureEndsResearch ==
    (hist.reflects # <<>> /\ Last(hist.reflects).kind = "unparseable") =>
        /\ state.is_sufficient = TRUE
        /\ state.follow_up_queries = <<>>
        /\ route = "answer_generation"
        /\ pc \in {"answer_generation", "END"}
        /\ Len(hist.batches) = Len(hist.reflects)

C19_Witness ==
    /\ pc = "answer_generation"
    /\ Len(hist.reflects) = 2
    /\ hist.reflects[1].kind = "json"
    /\ hist.reflects[2].kind = "unparseable"
    /\ state.research_loop_count = 2
    /\ config.max_research_loops >= 2

EventsOfType(t) == {k \in DOMAIN io.events : io.events[k].type = t}

\* C21 as stated: in both streaming modes the events of a finished run hold
\* exactly one complete event and it is the last, also when the graph raises.
C21_OneCompleteLast ==
    (pc = "done" /\ io.mode \in {"values", "events"}) =>
        /\ Cardinality(EventsOfType("complete")) = 1
        /\ Last(io.events).type = "complete"

\* the frames of the run so far in SSE event mode
Frames == generate_stream(io.events, pc = "done")

\* C22: in SSE event mode every frame carries an id, the ids are 0, 1, 2, ...
\* in emission order, the event line of a frame is the type of its payload,
\* and the complete frame comes last, with the largest id.
C22_FrameIdsIncrease ==
    io.mode = "events" =>
        LET F == Frames IN
        /\ \A k \in DOMAIN F :
             /\ F[k].id = k - 1
             /\ F[k].event = F[k].type
             /\ F[k].type = "complete" => (k = Len(F) /\ pc = "done")
        /\ pc = "done" => Last(F).type = "complete"

C22_Witness ==
    /\ pc = "done"
    /\ io.mode = "events"
    /\ hist.answers = 1
    /\ Len(tasks) = 2
    /\ Len(Frames) = 13
    /\ Len(io.events) > Len(Frames)

\* the node_start events of web_search yielded so far, in order
SearchStarts ==
    {k \in DOMAIN io.events :
        io.events[k].type = "node_start" /\ io.events[k].node = "web_search"}

\* the j-th smallest element of a set of numbers
RECURSIVE Nth(_, _)
Nth(S, j) ==
    LET m == CHOOSE x \in S : \A y \in S : x <= y
    IN  IF j = 1 THEN m ELSE Nth(S \ {m}, j - 1)

\* the timestamp of the node_start that belongs to the node_complete frame f:
\* of the same Search task for web_search, else the latest start of the node
MatchingStart(f) ==
    IF f.nodeId = "web_search"
    THEN LET j == CHOOSE j \in DOMAIN tasks :
                     tasks[j].send.task_id = f.output.output.search_results[1].task_id
         IN  io.events[Nth(SearchStarts, j)].timestamp
    ELSE LET starts == {k \in DOMAIN io.events :
                           /\ io.events[k].type = "node_start"
                           /\ io.events[k].node = f.nodeId
                           /\ io.events[k].timestamp < f.timestamp}
         IN  io.events[CHOOSE k \in starts : \A l \in starts : l <= k].timestamp

\* C23 as stated: the duration of every node_complete frame is its timestamp
\* minus that of the node_start of the same stage execution or Search task,
\* in milliseconds, also for the tasks of one batch that run in parallel.
C23_DurationFromMatchingStart ==
    io.mode = "events" =>
        LET F == Frames IN
        \A k \in DOMAIN F :
            F[k].type = "node_complete" =>
                F[k].duration = (F[k].timestamp - MatchingStart(F[k])) * 1000

\* C24 as stated: stream_research yields exactly one state_update per completed
\* superstep, one for a whole batch of parallel Search tasks.
C24_OneUpdatePerStep ==
    io.mode = "values" => Cardinality(EventsOfType("state_update")) = steps

\* C24 amended: stream_research yields one state_update for the state the run
\* starts from and one per completed superstep after it; a batch of N
\* parallel Search tasks is one superstep and yields one.
C24_OneUpdatePerStepAfterFirst ==
    (io.mode = "values" /\ pc # "start") =>
        Cardinality(EventsOfType("state_update")) = steps + 1

C24_Witness ==
    /\ pc = "done"
    /\ io.mode = "values"
    /\ Len(tasks) = 2
    /\ hist.answers = 1
    /\ Cardinality(EventsOfType("state_update")) = 6


\* a response that reports a failure to the caller
IsErrorResponse(r) ==
    \/ r.kind = "http_error" /\ r.status >= 400
    \/ r.kind = "json" /\ ~r.success /\ r.error # ""
    \/ r.kind = "ws_messages" /\ r.messages = <<"error">> /\ r.error # ""

\* a question that is empty or holds nothing but whitespace
Blank(q) == \A k \in DOMAIN q : q[k] = " "

HttpEntries ==
    {"research_endpoint", "research_stream_endpoint", "research_websocket",
     "run_thread"}

\* C25: for an empty or whitespace-only question every entry point of the
\* service (POST /research, POST /research/stream, the WebSocket, thread runs)
\* answers with an error, and no stage function is invoked.
C25_EmptyQuestionRejected ==
    (io.entry \in HttpEntries /\ Blank(io.question)) =>
        /\ pc \in {"request", "responded"}
        /\ steps = 0 /\ hist = NoHist /\ io.events = <<>>
        /\ pc = "responded" => IsErrorResponse(io.response)

C25_Witness ==
    /\ pc = "responded"
    /\ io.entry = "run_thread"
    /\ io.question = <<" ", " ">>
    /\ io.response.kind = "http_error"

\* C26: POST /research drains the sequence of stream_research; when it held a
\* complete event the response has success = true and the final_answer,
\* citations and errors of that event's payload (the final state), otherwise
\* success = false and an error description.
C26_ResearchEndpointResult ==
    (io.entry = "research_endpoint" /\ pc = "responded"
        /\ ~Blank(io.question)) =>
        IF \E k \in DOMAIN io.events : io.events[k].type = "complete"
        THEN /\ io.events[Len(io.events)].type = "complete"
             /\ io.response.success
             /\ io.response.final_answer = state.final_answer
             /\ io.response.citations = state.citations
             /\ io.response.errors = state.errors
        ELSE /\ ~io.response.success
             /\ io.response.error # ""

C26_Witness ==
    /\ io.entry = "research_endpoint" /\ pc = "responded"
    /\ io.response.success
    /\ hist.answers = 1
    /\ io.response.final_answer # ""
    /\ io.response.citations # <<>>

\* C27: with an invalid configuration (no credentials, demo mode off)
\* run_research_agent invokes no stage and returns a result with
\* success = false and an error description.
C27_InvalidConfigFailsFast ==
    (io.entry = "run_research_agent" /\ ~validate(config)) =>
        /\ hist = NoHist
        /\ pc = "responded" =>
              /\ "success" \in DOMAIN io.response
              /\ ~io.response.success

\* C28: with demo mode on, a run of run_research_agent asks no language model
\* and ends with success, a non-empty final_answer and current_phase completed.
C28_DemoModeIsCanned ==
    (io.entry = "run_research_agent" /\ config.demo_mode) =>
        /\ hist.generated = <<>> /\ hist.reflects = <<>> /\ hist.answered = <<>>
        /\ \A i \in DOMAIN tasks : ~tasks[i].done
        /\ pc = "responded" =>
              /\ "success" \in DOMAIN io.response
              /\ io.response.success
              /\ io.response.final_answer # ""
              /\ state.current_phase = "completed"

\* the Search tasks of the current fan-out whose call has not returned
InFlight == {i \in DOMAIN tasks : ~tasks[i].done}

\* C29: during a Search fan-out no more than parallel_search_limit Search
\* tasks of the run are in flight at the same time.
C29_ParallelismBounded ==
    pc = "web_search" => Cardinality(InFlight) <= config.parallel_search_limit

\* C30: a Search task whose model call never returns is resolved by a timeout,
\* so every fan-out is followed by an execution of aggregate_results.
C30_FanOutReachesAggregate ==
    (pc = "web_search") ~> (pc = "aggregate_results")


\* xs is an initial part of ys
IsPrefix(xs, ys) == Len(xs) <= Len(ys) /\ SubSeq(ys, 1, Len(xs)) = xs

\* C32: errors is append-only within a run: across every step the previous
\* errors sequence is a prefix of the new one.
C32_ErrorsAppendOnly == [][IsPrefix(state.errors, state'.errors)]_vars

C32_Witness ==
    /\ pc = "END"
    /\ hist.generated = <<"error">>
    /\ \E i \in DOMAIN tasks : tasks[i].out.kind = "error"
    /\ hist.answered = <<"error">>
    /\ Len(state.errors) >= 4

\* C35 as stated: after generate_queries, query_list holds at most
\* initial_queries_count queries on every path, for every count >= 0.
C35_QueryListWithinCount ==
    JustGenerated => Len(state.query_list) <= config.initial_queries_count

\* C35 as the code has it: at most initial_queries_count queries when the model
\* answers (parsed or not), and the single original question when its call fails.
C35_QueryListWithinCountOrQuestion ==
    JustGenerated =>
        IF hist.generated[1] = "error"
        THEN state.query_list = <<state.original_question>>
        ELSE Len(state.query_list) <= config.initial_queries_count

C35_Witness ==
    /\ JustGenerated
    /\ hist.generated[1] = "json"
    /\ config.initial_queries_count = 1
    /\ Len(state.query_list) = 1
    /\ pc = "web_search"

\* C36: every execution of reflection increases research_loop_count by exactly
\* one, whichever path it takes, and no other stage changes it.
C36_ReflectCountsOnce ==
    [][ IF pc = "reflection"
        THEN state'.research_loop_count = state.research_loop_count + 1
        ELSE state'.research_loop_count = state.research_loop_count ]_vars

C36_Witness ==
    /\ pc = "answer_generation"
    /\ Len(hist.reflects) = 2
    /\ hist.reflects[1].kind = "json"
    /\ hist.reflects[2].kind = "call_error"
    /\ state.research_loop_count = 2

\* C37: after every execution of generate_queries, the path where the model
\* call fails included, current_phase is search_web.
C37_QueryGenSetsPhase ==
    JustGenerated => state.current_phase = "search_web"

C33_SuccessMeansAnswered ==
    (io.entry = "research_endpoint" /\ pc = "responded" /\ io.response.success) =>
        /\ hist.answers >= 1
        /\ io.response.final_answer # ""


\* the places of the frames that tell the client the run is complete
CompletionFrames(fs) ==
    {k \in DOMAIN fs : fs[k] \in {"research_complete", "complete"}}

\* C39: in SSE state-snapshot mode the client of a run that reached its answer
\* receives exactly one frame that signals completion, and no frame follows it.
C39_OneCompletionFrame ==
    (pc = "responded" /\ io.response.kind = "sse" /\ hist.answers = 1) =>
        LET fs == io.response.frames IN
        /\ Cardinality(CompletionFrames(fs)) = 1
        /\ CompletionFrames(fs) = {Len(fs)}

\* C40: in SSE event mode, whenever stream_research_events yields an error
\* event, the client receives an error frame for it.
C40_ErrorEventReachesClient ==
    (io.mode = "events" /\ pc = "done") =>
        LET F == Frames IN
        \A k \in EventsOfType("error") :
            \E j \in DOMAIN F : F[j].type = "error"


\* the messages of the progress updates sent for a phase, in the order sent
RECURSIVE ProgressMessages(_, _)
ProgressMessages(calls, phase) ==
    IF calls = <<>> THEN <<>>
    ELSE LET c == Head(calls) IN
         (IF c.phase = phase /\ c.update_type = "progress" THEN <<c.message>> ELSE <<>>)
            \o ProgressMessages(Tail(calls), phase)

\* C34: an exception raised by the writer's callback never leaves send_update,
\* and the progress messages are recorded in phase_history all the same.
C34_CallbackErrorsSwallowed ==
    writer.callback \in {"raises", "coroutine_raises"} =>
        /\ ~writer.raised
        /\ \A phase \in WriterPhases :
              History(writer.phase_history, phase)
                  = ProgressMessages(writer.calls, phase)

C34_Witness ==
    /\ writer.callback = "raises"
    /\ Len(writer.calls) = 2
    /\ writer.calls[1].update_type = "error"
    /\ writer.calls[2] = [ phase |-> "search_web", update_type |-> "progress",
                           message |-> "m1" ]
    /\ Len(writer.delivered) = 2
    /\ writer.phase_history["search_web"] = <<"m1">>


\* the events of run r that generate_stream turns into frames
ForwardedEvents(r) ==
    {k \in DOMAIN r.io.events :
        /\ r.io.events[k].node \in node_states
        /\ r.io.events[k].type \in {"node_start", "node_complete"}}

\* how many of xs satisfy being equal to x
RECURSIVE Count(_, _)
Count(xs, x) ==
    IF xs = <<>> THEN 0
    ELSE (IF Head(xs) = x THEN 1 ELSE 0) + Count(Tail(xs), x)

\* the writes of run r's Search tasks have reached its channels: the fan-in
\* is the second superstep of a run
FannedIn(r) == r.steps >= 2

\* the entries the stages of run r have appended to errors, by r's own history
OwnErrors(r) ==
    Count(r.hist.generated, "error")
    + (IF FannedIn(r)
       THEN Cardinality({i \in DOMAIN r.tasks : r.tasks[i].out.kind = "error"})
       ELSE 0)
    + Len(r.hist.reflects)
    + Count(r.hist.answered, "error")

\* the records in run r's search_results, by r's own history
OwnRecords(r) ==
    IF FannedIn(r)
    THEN Len(r.tasks) * (1 + r.hist.aggregates)
    ELSE 0

\* run r holds its own contributions and nothing else
Isolated(r) ==
    LET F == generate_stream(r.io.events, r.pc = "done") IN
    /\ \A j \in DOMAIN F : F[j].id = j - 1
    /\ Len(F) = Cardinality(ForwardedEvents(r)) + (IF r.pc = "done" THEN 1 ELSE 0)
    /\ r.state.original_question = Text(r.io.question)
    /\ r.state.research_loop_count = Len(r.hist.reflects)
    /\ Len(r.state.errors) = OwnErrors(r)
    /\ Len(r.state.search_results) = OwnRecords(r)

\* C31: two runs executing concurrently, in any interleaving, share no state
\* and no counter: each run's frame ids start at 0 and count its own frames,
\* and its records, errors and loop count hold its own contributions only.
C31_RunsIsolated == Isolated(ThisRun) /\ Isolated(other)

C31_Witness ==
    /\ io.question = <<"Q">>
    /\ pc = "web_search"
    /\ Cardinality(ForwardedEvents(ThisRun)) >= 3
    /\ other.pc = "web_search"
    /\ Cardinality(ForwardedEvents(other)) >= 3
    /\ Len(state.errors) = 1
    /\ other.state.errors = <<>>

====
